---- MODULE Spec2Model ----
(***************************************************************************)
(* Model of agentic_study_agent.py: the deterministic study planner.       *)
(*                                                                         *)
(* Hours are integers counted in micro-hours (1e-6 h), so that the code's  *)
(* tolerances (1e-6 and 0.0001) and its round(x, 2) are all representable. *)
(* Dates are day numbers; ISO date strings of the same century compare as  *)
(* the dates they denote, so "<" on strings is "<" on day numbers.         *)
(* Inputs never sit exactly half-way between two hundredths, where the     *)
(* result of Python's round() depends on the binary representation.        *)
(***************************************************************************)
EXTENDS Integers, Sequences, FiniteSets, TLC

VARIABLES syllabus, exam_date, daily_hours, review_every, max_chunk,
          start_date, today, plan, placed, last, runs,
          file, exit, sent, gen

vars == <<syllabus, exam_date, daily_hours, review_every, max_chunk,
          start_date, today, plan, placed, last, runs, file, exit, sent, gen>>

config == <<syllabus, exam_date, daily_hours, review_every, max_chunk, start_date>>

(* ------------------------------ bounds -------------------------------- *)
MaxDays == 3

(* ------------------------------ units --------------------------------- *)
Hour == 1000 * 1000
Cent == Hour \div 100
CapacityEps == Hour \div 1000000
RemainingEps == Hour \div 10000
ReviewHours == 1 * Hour
AttemptsFactor == 4
UNSCHEDULED == -1
FirstDay == 1
NoExamDate == 0

Min2(a, b) == IF a <= b THEN a ELSE b

(* round(x, 2): nearest hundredth of an hour, ties to even *)
Round2(x) ==
    LET q == x \div Cent
        r == x % Cent
    IN  IF 2 * r < Cent THEN q * Cent
        ELSE IF 2 * r > Cent THEN (q + 1) * Cent
        ELSE IF q % 2 = 0 THEN q * Cent ELSE (q + 1) * Cent

(* ------------------------------ sessions ------------------------------ *)
Note(k, d) == [kind |-> k, date |-> d]

Session(d, t, dur, st, n) ==
    [date |-> d, topic |-> t, duration_hours |-> dur, status |-> st, notes |-> n]

(* ------------------------ normalize_syllabus -------------------------- *)
TopicNames == <<"Algebra", "Biology">>

NameRank(n) == CHOOSE i \in 1..Len(TopicNames) : TopicNames[i] = n

Weight(priority) ==
    IF priority = "high" THEN 3 ELSE IF priority = "low" THEN 1 ELSE 2

(* the sort key (-weight, topic): a sorts strictly before b *)
KeyLess(a, b) ==
    \/ a.weight > b.weight
    \/ a.weight = b.weight /\ NameRank(a.topic) < NameRank(b.topic)

RECURSIVE InsertSorted(_, _)
InsertSorted(s, x) ==
    IF s = <<>> THEN <<x>>
    ELSE IF KeyLess(x, s[Len(s)]) THEN Append(InsertSorted(SubSeq(s, 1, Len(s) - 1), x), s[Len(s)])
    ELSE Append(s, x)

RECURSIVE SortTopics(_)
SortTopics(s) ==
    IF s = <<>> THEN <<>>
    ELSE InsertSorted(SortTopics(SubSeq(s, 1, Len(s) - 1)), s[Len(s)])

normalize_syllabus(syl) ==
    SortTopics([i \in 1..Len(syl) |->
        [topic |-> syl[i].topic, remaining |-> syl[i].est_hours,
         priority |-> syl[i].priority, weight |-> Weight(syl[i].priority)]])

(* --------------------------- generate_plan ---------------------------- *)
(* a range check that lets the exam fall on the start date *)
InvalidDateRange_Strict(start, exam) == exam < start \/ (exam - start) < 0

(* lines 82-87: the two checks that raise ValueError *)
InvalidDateRange(start, exam) == exam <= start \/ (exam - start) <= 0

AnyRemaining(topics) == \E i \in 1..Len(topics) : topics[i].remaining > 0

(* the amount the inner for-loop computes for topic idx0 (0-based) *)
Alloc(topics, idx0, cap, chunk) ==
    Min2(topics[idx0 + 1].remaining, Min2(Min2(chunk, cap), cap))

(* offsets i of the inner for-loop at which an allocation is made *)
Hits(topics, cur, cap, chunk) ==
    {i \in 0..(Len(topics) - 1) :
        LET idx0 == (cur + i) % Len(topics)
        IN  topics[idx0 + 1].remaining > 0 /\ Alloc(topics, idx0, cap, chunk) > 0}

FirstHit(topics, cur, cap, chunk) ==
    LET h == Hits(topics, cur, cap, chunk)
    IN  CHOOSE i \in h : \A j \in h : i <= j

(* one successful pass of the inner for-loop: lines 121-138 *)
AllocStep(g, date, chunk) ==
    LET n == Len(g.topics)
        idx0 == (g.idx + FirstHit(g.topics, g.idx, g.cap, chunk)) % n
        t == g.topics[idx0 + 1]
        alloc == Round2(Alloc(g.topics, idx0, g.cap, chunk))
    IN  [plan |-> Append(g.plan, Session(date, t.topic, alloc, "pending", <<>>)),
         topics |-> [g.topics EXCEPT ![idx0 + 1].remaining = Round2(t.remaining - alloc)],
         idx |-> (idx0 + 1) % n,
         cap |-> Round2(g.cap - alloc),
         attempts |-> g.attempts + 1]

(* a loop condition without the bound on the attempts *)
LoopGuard_Unbounded(g) == g.cap > 0 /\ AnyRemaining(g.topics)

(* line 118: the condition of the while-loop *)
LoopGuard(g) ==
    g.cap > 0 /\ AnyRemaining(g.topics) /\ g.attempts < Len(g.topics) * AttemptsFactor

(* the while-loop of one day: lines 118-141 *)
RECURSIVE AllocLoop(_, _, _)
AllocLoop(g, date, chunk) ==
    IF LoopGuard(g)
    THEN IF Hits(g.topics, g.idx, g.cap, chunk) = {} THEN g
         ELSE AllocLoop(AllocStep(g, date, chunk), date, chunk)
    ELSE g

(* a review slot on the days whose 0-based index is divisible *)
ReviewStep_ZeroBased(g, date, day_offset, every) ==
    IF day_offset % every = 0
    THEN LET review_dur == Min2(ReviewHours, g.cap)
         IN  IF review_dur > 0
             THEN [g EXCEPT !.plan = Append(g.plan,
                        Session(date, "Review & Practice", Round2(review_dur), "pending",
                                <<Note("Periodic review day", 0)>>)),
                            !.cap = g.cap - review_dur]
             ELSE g
    ELSE g

(* the periodic review slot: lines 104-108 *)
ReviewStep(g, date, day_offset, every) ==
    IF (day_offset + 1) % every = 0
    THEN LET review_dur == Min2(ReviewHours, g.cap)
         IN  IF review_dur > 0
             THEN [g EXCEPT !.plan = Append(g.plan,
                        Session(date, "Review & Practice", Round2(review_dur), "pending",
                                <<Note("Periodic review day", 0)>>)),
                            !.cap = g.cap - review_dur]
             ELSE g
    ELSE g

(* a day that starts the round-robin again at the first topic *)
DayBegin_ResetIdx(g, date, day_offset, daily, every) ==
    ReviewStep([g EXCEPT !.cap = daily, !.attempts = 0, !.idx = 0], date, day_offset, every)

(* lines 100-112: the start of a day, up to the while-loop *)
DayBegin(g, date, day_offset, daily, every) ==
    ReviewStep([g EXCEPT !.cap = daily, !.attempts = 0], date, day_offset, every)

(* the body of the day loop: lines 100-141 *)
DayStep(g, start, day_offset, daily, every, chunk) ==
    LET date == start + day_offset
        g1 == DayBegin(g, date, day_offset, daily, every)
    IN  IF ~AnyRemaining(g1.topics) THEN g1
        ELSE AllocLoop(g1, date, chunk)

RECURSIVE DayLoop(_, _, _, _, _, _, _)
DayLoop(g, start, day_offset, days, daily, every, chunk) ==
    IF day_offset >= days THEN g
    ELSE DayLoop(DayStep(g, start, day_offset, daily, every, chunk),
                 start, day_offset + 1, days, daily, every, chunk)

(* a generator that drops the leftover effort *)
Overflow_Dropped(p, topics, i) == p

(* lines 143-151: leftover effort becomes UNSCHEDULED entries *)
RECURSIVE Overflow(_, _, _)
Overflow(p, topics, i) ==
    IF i > Len(topics) THEN p
    ELSE IF topics[i].remaining > RemainingEps
         THEN Overflow(Append(p, Session(UNSCHEDULED, topics[i].topic,
                                  Round2(topics[i].remaining), "pending",
                                  <<Note("Not enough days before exam", 0)>>)),
                       topics, i + 1)
         ELSE Overflow(p, topics, i + 1)

RECURSIVE SumRemaining(_, _)
SumRemaining(topics, i) ==
    IF i > Len(topics) THEN 0 ELSE topics[i].remaining + SumRemaining(topics, i + 1)

(* lines 89-94: the state of the generator before the first day *)
GenState(topics, daily) ==
    [plan |-> <<>>, topics |-> topics, idx |-> 0, cap |-> daily, attempts |-> 0]

(* generate_plan, for a valid date range *)
generate_plan(syl, start, exam, daily, every, chunk) ==
    LET days == exam - start
        topics == normalize_syllabus(syl)
        g0 == GenState(topics, daily)
        g == DayLoop(g0, start, 0, days, daily, every, chunk)
    IN  [plan |-> Overflow(g.plan, g.topics, 1),
         not_enough_time |-> SumRemaining(topics, 1) > days * daily,
         total_hours_needed |-> SumRemaining(topics, 1),
         capacity |-> days * daily]

(* -------------------------- reschedule_missed ------------------------- *)
(* detection that also takes the sessions dated today *)
IsMissed_Today(p, td) ==
    /\ p.date # UNSCHEDULED
    /\ p.date <= td
    /\ p.status # "done"
    /\ p.status # "missed"

(* detection that takes the sessions already marked missed again *)
IsMissed_Again(p, td) ==
    /\ p.date # UNSCHEDULED
    /\ p.date < td
    /\ p.status # "done"

(* detection that takes the sessions the user has completed *)
IsMissed_Done(p, td) ==
    /\ p.date # UNSCHEDULED
    /\ p.date < td
    /\ p.status # "missed"

(* line 166: a concrete date before today, status neither done nor missed *)
IsMissed(p, td) ==
    /\ p.date # UNSCHEDULED
    /\ p.date < td
    /\ p.status # "done"
    /\ p.status # "missed"

(* positions of the detected sessions, in plan order *)
MissedIdx(pl, td) == SelectSeq([i \in 1..Len(pl) |-> i], LAMBDA i : IsMissed(pl[i], td))

(* marking that moves the missed session out of its day *)
MarkMissed_Moved(pl, td) ==
    [i \in 1..Len(pl) |->
        IF IsMissed(pl[i], td)
        THEN [pl[i] EXCEPT !.status = "missed", !.date = UNSCHEDULED,
                           !.notes = <<Note("marked missed on", td)>> \o pl[i].notes]
        ELSE pl[i]]

(* lines 171-174 *)
MarkMissed(pl, td) ==
    [i \in 1..Len(pl) |->
        IF IsMissed(pl[i], td)
        THEN [pl[i] EXCEPT !.status = "missed",
                           !.notes = <<Note("marked missed on", td)>> \o pl[i].notes]
        ELSE pl[i]]

WindowDays(td, exam) == IF exam - td < 0 THEN 0 ELSE exam - td

RECURSIVE SumOn(_, _, _)
SumOn(pl, d, i) ==
    IF i > Len(pl) THEN 0
    ELSE (IF pl[i].date = d /\ pl[i].status # "missed" THEN pl[i].duration_hours ELSE 0)
         + SumOn(pl, d, i + 1)

(* lines 177-188 *)
Occupancy(pl, td, days) == [d \in td..(td + days - 1) |-> SumOn(pl, d, 1)]

(* line 198: the dates of the window with room for dur *)
Fits(occ, dur, daily) == {d \in DOMAIN occ : occ[d] + dur <= daily + CapacityEps}

(* a placement on the last date with room instead of the first *)
PlaceOne_Latest(r, m, daily) ==
    LET dur == m.duration_hours
        f == Fits(r.occupancy, dur, daily)
    IN  IF f # {}
        THEN LET d == CHOOSE x \in f : \A y \in f : x >= y
             IN  [r EXCEPT !.plan = Append(r.plan,
                               Session(d, m.topic, dur, "pending",
                                       <<Note("rescheduled from", m.date)>>)),
                           !.occupancy = [r.occupancy EXCEPT ![d] = @ + dur],
                           !.placed = @ + 1]
        ELSE [r EXCEPT !.unscheduled = Append(r.unscheduled, m)]

(* lines 192-208: one iteration of the placement loop, for the session m *)
PlaceOne(r, m, daily) ==
    LET dur == m.duration_hours
        f == Fits(r.occupancy, dur, daily)
    IN  IF f # {}
        THEN LET d == CHOOSE x \in f : \A y \in f : x <= y
             IN  [r EXCEPT !.plan = Append(r.plan,
                               Session(d, m.topic, dur, "pending",
                                       <<Note("rescheduled from", m.date)>>)),
                           !.occupancy = [r.occupancy EXCEPT ![d] = @ + dur],
                           !.placed = @ + 1]
        ELSE [r EXCEPT !.unscheduled = Append(r.unscheduled, m)]

RECURSIVE PlaceLoop(_, _, _, _)
PlaceLoop(r, idxs, k, daily) ==
    IF k > Len(idxs) THEN r
    ELSE PlaceLoop(PlaceOne(r, r.plan[idxs[k]], daily), idxs, k + 1, daily)

(* a run that records nothing for the sessions it could not place *)
AppendFailed_Dropped(pl, us, k) == pl

(* lines 210-211 *)
RECURSIVE AppendFailed(_, _, _)
AppendFailed(pl, us, k) ==
    IF k > Len(us) THEN pl
    ELSE AppendFailed(Append(pl, Session(UNSCHEDULED, us[k].topic, us[k].duration_hours,
                                         "pending", <<Note("reschedule failed", 0)>>)),
                      us, k + 1)

reschedule_missed(pl, td, exam, daily) ==
    LET days == WindowDays(td, exam)
        missed == MissedIdx(pl, td)
    IN  IF missed = <<>> THEN [plan |-> pl, placed |-> 0]
        ELSE LET marked == MarkMissed(pl, td)
                 r == PlaceLoop([plan |-> marked, occupancy |-> Occupancy(marked, td, days),
                                 placed |-> 0, unscheduled |-> <<>>],
                                missed, 1, daily)
             IN  [plan |-> AppendFailed(r.plan, r.unscheduled, 1), placed |-> r.placed]

(* ------------------------------- inputs ------------------------------- *)
Priorities == {"high", "low"}

(* efforts, budgets and chunks, in micro-hours: 0 h, 0.004 h, 0.25 h, 1 h,    *)
(* 1.506 h, 2 h, 3 h                                                         *)
GenEfforts == {0, 4000, Hour, 1506000, 3 * Hour}
GenBudgets == {4000, Hour, 1506000, 2 * Hour}
GenChunks == {0, 250000, Hour, 2 * Hour}
GenReviews == {2, 6}
Efforts == {Hour, 2 * Hour}
Budgets == {1506000, 2 * Hour}
Chunks == {Hour, 2 * Hour}
Reviews == {2}
MainChunks == {2 * Hour}
MainBudgets == {2 * Hour}
MainEfforts == {0, 2 * Hour}
StepEfforts == {0, 4000, Hour, 3 * Hour}
StepBudgets == {4000, 506000, 2 * Hour}
StepChunks == {0 - Hour, 0, 4000, 250000, 2 * Hour}

Items(efforts, prios) ==
    [topic : {TopicNames[i] : i \in 1..Len(TopicNames)},
     est_hours : efforts, priority : prios]

(* topic lists with distinct names *)
Syllabi(efforts, prios) ==
    {s \in UNION {[1..n -> Items(efforts, prios)] : n \in 0..Len(TopicNames)} :
        \A i, j \in 1..Len(s) : i # j => s[i].topic # s[j].topic}

NoFile == [exists |-> FALSE, content |-> <<>>]

(* generate_plan has not been entered *)
GenIdle == [pc |-> "idle", day |-> 0, g |-> GenState(<<>>, 0)]

InitWith(efforts, prios, budgets, chunks, reviews, exams) ==
    /\ syllabus \in Syllabi(efforts, prios)
    /\ start_date = FirstDay
    /\ exam_date \in exams
    /\ daily_hours \in budgets
    /\ review_every \in reviews
    /\ max_chunk \in chunks
    /\ today = FirstDay
    /\ plan = <<>>
    /\ placed = 0
    /\ last = "init"
    /\ runs = 0
    /\ file = NoFile
    /\ exit = "none"
    /\ sent = <<>>
    /\ gen = GenIdle

(* ------------------- the functions, called directly ------------------- *)
(* generate_plan(syllabus, start_date, exam_date, daily_hours) *)
Generate ==
    /\ last = "init"
    /\ IF InvalidDateRange(start_date, exam_date)
       THEN /\ last' = "error"
            /\ plan' = plan
       ELSE /\ last' = "generate_plan"
            /\ plan' = generate_plan(syllabus, start_date, exam_date, daily_hours,
                                     review_every, max_chunk).plan
    /\ UNCHANGED <<config, gen, today, placed, runs, file, exit, sent>>

(* the user edits the plan: session i is set to done.  Only pending sessions *)
(* with a concrete date are edited: the status of a missed or UNSCHEDULED   *)
(* session is read by no later step (lines 166 and 184 skip both).          *)
MarkDone(i) ==
    /\ last \in {"generate_plan", "reschedule_missed", "none"}
    /\ i \in 1..Len(plan)
    /\ plan[i].status = "pending"
    /\ plan[i].date # UNSCHEDULED
    /\ plan' = [plan EXCEPT ![i].status = "done"]
    /\ last' = "none"
    /\ runs' = 0
    /\ UNCHANGED <<config, gen, today, placed, file, exit, sent>>

(* the calendar moves on: today_date() returns the next day *)
NextDay ==
    /\ last \in {"generate_plan", "reschedule_missed", "none"}
    /\ today <= FirstDay + MaxDays
    /\ today' = today + 1
    /\ last' = "none"
    /\ runs' = 0
    /\ UNCHANGED <<config, gen, plan, placed, file, exit, sent>>

(* reschedule_missed(plan, _, exam_date, daily_hours) with today_date() = today *)
Reschedule ==
    /\ last \in {"generate_plan", "reschedule_missed", "none"}
    /\ LET r == reschedule_missed(plan, today, exam_date, daily_hours)
       IN  /\ plan' = r.plan
           /\ placed' = r.placed
    /\ runs' = IF runs = 0 THEN 1 ELSE 2
    /\ last' = "reschedule_missed"
    /\ UNCHANGED <<config, gen, today, file, exit, sent>>

Init == InitWith(Efforts, {"medium"}, Budgets, Chunks, Reviews, FirstDay..(FirstDay + MaxDays))

Next == Generate \/ (\E i \in 1..Len(plan) : MarkDone(i)) \/ NextDay \/ Reschedule

Spec == Init /\ [][Next]_vars

(* the generator alone, over a wider range of inputs *)
GenInit == InitWith(GenEfforts, Priorities, GenBudgets, GenChunks, GenReviews, FirstDay..(FirstDay + MaxDays))

GenNext == Generate

GenSpec == GenInit /\ [][GenNext]_vars

(* -------------------------------- main -------------------------------- *)
(* line 244: today's sessions that are not done *)
Todays(pl, td) == SelectSeq(pl, LAMBDA p : p.date = td /\ p.status # "done")

(* what a call of requests.post can do *)
Outcomes == {"delivered", "failed", "not configured"}

Sent(m, o) == [msg |-> m, outcome |-> o]

(* a sender without the try/except around the post *)
send_telegram_Unguarded(o) ==
    IF o = "not configured" THEN "returned"
    ELSE IF o = "failed" THEN "raised" ELSE "returned"

(* lines 52-62: returns early when not configured, swallows a failed post *)
send_telegram(o) ==
    IF o = "not configured" THEN "returned"
    ELSE IF o = "failed" THEN "returned" ELSE "returned"

(* the exit of main after its last call of send_telegram *)
ExitAfter(r) == IF r = "raised" THEN "Exception" ELSE "0"

(* lines 231-240: no plan yet, generate one *)
MainGenerate(o) ==
    IF InvalidDateRange(today, exam_date)
    THEN (* ValueError leaves main: nothing written, nothing sent *)
         /\ exit' = "ValueError"
         /\ last' = "main:generate"
         /\ plan' = <<>>
         /\ sent' = <<>>
         /\ UNCHANGED <<file, placed>>
    ELSE LET g == generate_plan(syllabus, today, exam_date, daily_hours,
                                review_every, max_chunk)
         IN  /\ plan' = g.plan
             /\ file' = [exists |-> TRUE, content |-> g.plan]
             /\ sent' = <<Sent("generated", o)>>
             /\ exit' = ExitAfter(send_telegram(o))
             /\ last' = "main:generate"
             /\ placed' = 0

(* lines 242-260: send today's tasks, reconcile, persist when placed > 0 *)
MainReconcile(pl, o1, o2) ==
    LET r == reschedule_missed(pl, today, exam_date, daily_hours)
        s1 == IF Todays(pl, today) # <<>> THEN <<Sent("today", o1)>> ELSE <<>>
    IN  IF s1 # <<>> /\ send_telegram(o1) = "raised"
        THEN (* the exception leaves main before reschedule_missed is called *)
             /\ plan' = pl
             /\ sent' = s1
             /\ exit' = "Exception"
             /\ last' = "main:reconcile"
             /\ UNCHANGED <<placed, file>>
        ELSE /\ plan' = r.plan
             /\ placed' = r.placed
             /\ file' = IF r.placed > 0 THEN [exists |-> TRUE, content |-> r.plan] ELSE file
             /\ sent' = IF r.placed > 0 THEN Append(s1, Sent("rescheduled", o2)) ELSE s1
             /\ exit' = IF r.placed > 0 THEN ExitAfter(send_telegram(o2)) ELSE "0"
             /\ last' = "main:reconcile"

(* a test that takes only a missing plan.json for "no plan" *)
NoPlan_Missing(f) == ~f.exists

(* lines 225 and 231: plan.json is missing or holds an empty list *)
NoPlan(f) == ~f.exists \/ f.content = <<>>

(* one invocation of main(); syllabus.json is present; o1 and o2 are what *)
(* its calls of send_telegram meet                                        *)
Main(o1, o2) ==
    /\ IF exam_date = NoExamDate
       THEN /\ exit' = "1"
            /\ last' = "main:config"
            /\ sent' = <<>>
            /\ UNCHANGED <<plan, placed, file>>
       ELSE IF NoPlan(file) THEN MainGenerate(o1) ELSE MainReconcile(file.content, o1, o2)
    /\ runs' = 0
    /\ UNCHANGED <<config, gen, today>>

(* between invocations the user sets a session of plan.json to done *)
UserMarksDone(i) ==
    /\ file.exists
    /\ i \in 1..Len(file.content)
    /\ file.content[i].status = "pending"
    /\ file.content[i].date # UNSCHEDULED
    /\ file' = [file EXCEPT !.content[i].status = "done"]
    /\ last' = "none"
    /\ UNCHANGED <<config, gen, today, plan, placed, runs, exit, sent>>

(* between invocations the calendar moves on *)
MainNextDay ==
    /\ today <= FirstDay + MaxDays
    /\ today' = today + 1
    /\ last' = "none"
    /\ UNCHANGED <<config, gen, plan, placed, runs, file, exit, sent>>

MainInit == InitWith(MainEfforts, {"medium"}, MainBudgets, MainChunks, Reviews,
                     {NoExamDate} \cup (FirstDay..(FirstDay + MaxDays)))

MainNext == (\E o1, o2 \in Outcomes : Main(o1, o2)) \/ (\E i \in 1..Len(file.content) : UserMarksDone(i)) \/ MainNextDay

MainSpec == MainInit /\ [][MainNext]_vars

(* ------------------ generate_plan, one step at a time ----------------- *)
(* gen.pc: "idle" before the call, "day" at the head of the day loop,     *)
(* "loop" at the head of the while-loop, "done" after the return           *)

(* lines 80-97 *)
StepStart ==
    /\ gen.pc = "idle"
    /\ last = "init"
    /\ IF InvalidDateRange(start_date, exam_date)
       THEN /\ gen' = [gen EXCEPT !.pc = "done"]
            /\ last' = "error"
       ELSE /\ gen' = [pc |-> "day", day |-> 0,
                       g |-> GenState(normalize_syllabus(syllabus), daily_hours)]
            /\ last' = last
    /\ UNCHANGED <<config, today, plan, placed, runs, file, exit, sent>>

(* lines 99-116: the next day starts; with no effort left it is over at once *)
StepDayBegin ==
    /\ gen.pc = "day"
    /\ gen.day < exam_date - start_date
    /\ LET g1 == DayBegin(gen.g, start_date + gen.day, gen.day, daily_hours, review_every)
       IN  gen' = IF ~AnyRemaining(g1.topics)
                  THEN [pc |-> "day", day |-> gen.day + 1, g |-> g1]
                  ELSE [pc |-> "loop", day |-> gen.day, g |-> g1]
    /\ UNCHANGED <<config, today, plan, placed, last, runs, file, exit, sent>>

(* lines 118-138 and 141: a pass of the while-loop that allocates *)
StepAlloc ==
    /\ gen.pc = "loop"
    /\ LoopGuard(gen.g)
    /\ Hits(gen.g.topics, gen.g.idx, gen.g.cap, max_chunk) # {}
    /\ gen' = [gen EXCEPT !.g = AllocStep(gen.g, start_date + gen.day, max_chunk)]
    /\ UNCHANGED <<config, today, plan, placed, last, runs, file, exit, sent>>

(* lines 118 and 139-140: the while-loop is left *)
StepDayEnd ==
    /\ gen.pc = "loop"
    /\ ~LoopGuard(gen.g) \/ Hits(gen.g.topics, gen.g.idx, gen.g.cap, max_chunk) = {}
    /\ gen' = [gen EXCEPT !.pc = "day", !.day = gen.day + 1]
    /\ UNCHANGED <<config, today, plan, placed, last, runs, file, exit, sent>>

(* lines 143-154: the day loop is over *)
StepFinish ==
    /\ gen.pc = "day"
    /\ gen.day >= exam_date - start_date
    /\ gen' = [gen EXCEPT !.pc = "done"]
    /\ plan' = Overflow(gen.g.plan, gen.g.topics, 1)
    /\ last' = "generate_plan"
    /\ UNCHANGED <<config, today, placed, runs, file, exit, sent>>

StepInit == InitWith(StepEfforts, Priorities, StepBudgets, StepChunks, Reviews,
                     FirstDay..(FirstDay + MaxDays))

StepNext == StepStart \/ StepDayBegin \/ StepAlloc \/ StepDayEnd \/ StepFinish

StepSpec == StepInit /\ [][StepNext]_vars

(* the interpreter runs the function to its end *)
StepFairSpec == StepSpec /\ WF_vars(StepNext)

(* the steps compute what generate_plan computes *)
StepsAgree ==
    last = "generate_plan" =>
        plan = generate_plan(syllabus, start_date, exam_date, daily_hours,
                             review_every, max_chunk).plan

(* ============================ properties ============================== *)
Days == FirstDay..(FirstDay + MaxDays + 1)

RECURSIVE DayTotal(_, _, _)
DayTotal(pl, d, i) ==
    IF i > Len(pl) THEN 0
    ELSE (IF pl[i].date = d THEN pl[i].duration_hours ELSE 0) + DayTotal(pl, d, i + 1)

RECURSIVE TopicTotal(_, _, _)
TopicTotal(pl, t, i) ==
    IF i > Len(pl) THEN 0
    ELSE (IF pl[i].topic = t THEN pl[i].duration_hours ELSE 0) + TopicTotal(pl, t, i + 1)

Abs(x) == IF x < 0 THEN 0 - x ELSE x

(* C1: after generate_plan and any reschedule_missed runs, the durations of *)
(* all sessions dated on one day never add up to more than the daily budget *)
(* (plus the 1e-6 tolerance).                                               *)
C1_DayWithinBudget ==
    \A d \in Days : DayTotal(plan, d, 1) <= daily_hours + CapacityEps

(* C2, as stated: for every topic the durations of its sessions, the        *)
(* UNSCHEDULED entry included, add up to exactly the estimated effort.      *)
C2_TotalEqualsEffort ==
    last = "generate_plan" =>
        \A i \in 1..Len(syllabus) :
            TopicTotal(plan, syllabus[i].topic, 1) = syllabus[i].est_hours

(* C2, amended: for every topic the durations of its sessions, the          *)
(* UNSCHEDULED entry included, add up to the estimated effort within the    *)
(* rounding to 2 decimals (at most 0.005 h away from it).                   *)
C2_TotalWithinRounding ==
    last = "generate_plan" =>
        \A i \in 1..Len(syllabus) :
            2 * Abs(TopicTotal(plan, syllabus[i].topic, 1) - syllabus[i].est_hours) <= Cent

(* a generated plan with a topic whose effort is not a whole number of      *)
(* hundredths, split over dated sessions and an UNSCHEDULED entry           *)
C2_Witness ==
    /\ last = "generate_plan"
    /\ \E i \in 1..Len(syllabus) :
        /\ syllabus[i].est_hours % Cent # 0
        /\ \E j, k \in 1..Len(plan) :
            /\ plan[j].topic = syllabus[i].topic /\ plan[j].date # UNSCHEDULED
            /\ plan[j].duration_hours > 0
            /\ plan[k].topic = syllabus[i].topic /\ plan[k].date = UNSCHEDULED

(* a reschedule_missed run has just marked a session and rescheduled it *)
DidReschedule ==
    /\ last = "reschedule_missed"
    /\ \E i, j \in 1..Len(plan) :
        /\ plan[i].status = "missed"
        /\ plan[i].notes # <<>> /\ plan[i].notes[1] = Note("marked missed on", today)
        /\ plan[j].notes = <<Note("rescheduled from", plan[i].date)>>

(* C3: after a reschedule_missed run every session with a concrete date     *)
(* before today that is not done is missed, and the run has marked no       *)
(* session dated today or later, and no UNSCHEDULED session, as missed.     *)
C3_MissedExactlyPast ==
    [][last' = "reschedule_missed" =>
        /\ \A i \in 1..Len(plan') :
            (plan'[i].date # UNSCHEDULED /\ plan'[i].date < today /\ plan'[i].status # "done")
                => plan'[i].status = "missed"
        /\ \A i \in 1..Len(plan') :
            (plan'[i].status = "missed" /\ (i > Len(plan) \/ plan[i].status # "missed"))
                => (plan'[i].date # UNSCHEDULED /\ plan'[i].date < today)]_vars

(* a run that marked a past session while a done session of the past, a     *)
(* pending session of today or later and an UNSCHEDULED session exist       *)
C3_Witness ==
    /\ DidReschedule
    /\ \E i, j, k \in 1..Len(plan) :
        /\ plan[i].date # UNSCHEDULED /\ plan[i].date < today /\ plan[i].status = "done"
        /\ plan[j].date >= today /\ plan[j].status = "pending"
        /\ plan[k].date = UNSCHEDULED /\ plan[k].status = "pending"

(* C4: a second reschedule_missed run on the plan the first run returned,   *)
(* with the same today, returns 0, marks no session and appends none.       *)
C4_Idempotent ==
    [][(runs >= 1 /\ last = "reschedule_missed" /\ last' = "reschedule_missed")
        => (placed' = 0 /\ plan' = plan)]_vars

(* the second of two runs in a row, the first of which marked and placed *)
C4_Witness == DidReschedule /\ runs = 2

(* C5: whenever reschedule_missed returns a placement count of zero, the    *)
(* plan it returns is the plan it was given.                                *)
C5_ZeroMeansUnchanged ==
    [][(last' = "reschedule_missed" /\ placed' = 0) => plan' = plan]_vars

(* C6: at the end of every invocation of main that ran to completion, the   *)
(* plan file holds the in-memory plan.                                      *)
C6_FileIsPlan ==
    (last \in {"main:generate", "main:reconcile"} /\ exit = "0")
        => (file.exists /\ file.content = plan)

(* C7: under reschedule_missed a done session stays done, a missed session  *)
(* stays missed, and a session newly marked missed stays in the plan while  *)
(* a new pending session of the same topic and duration is appended.        *)
C7_NoBackwardStatus ==
    [][last' = "reschedule_missed" =>
        \A i \in 1..Len(plan) :
            /\ i <= Len(plan')
            /\ plan[i].status = "done" => plan'[i].status = "done"
            /\ plan[i].status = "missed" => plan'[i].status = "missed"
            /\ (plan[i].status = "pending" /\ plan'[i].status # "pending") =>
                /\ plan'[i].status = "missed"
                /\ plan'[i].date = plan[i].date
                /\ \E j \in (Len(plan) + 1)..Len(plan') :
                    /\ plan'[j].status = "pending"
                    /\ plan'[j].topic = plan[i].topic
                    /\ plan'[j].duration_hours = plan[i].duration_hours]_vars

(* a run that marked and rescheduled a session, in a plan that holds a done *)
(* session of the past and a session marked missed by an earlier run        *)
C7_Witness ==
    /\ DidReschedule
    /\ \E i, j \in 1..Len(plan) :
        /\ plan[i].date # UNSCHEDULED /\ plan[i].date < today /\ plan[i].status = "done"
        /\ plan[j].status = "missed"
        /\ plan[j].notes # <<>> /\ plan[j].notes[1].kind = "marked missed on"
        /\ plan[j].notes[1].date < today

(* C8: reschedule_missed only appends: every session of the plan passed in  *)
(* keeps its position, date, topic and duration; a session that changes at  *)
(* all was pending with a concrete date before today and changes in status  *)
(* and notes only.                                                          *)
C8_AppendOnly ==
    [][last' = "reschedule_missed" =>
        /\ Len(plan') >= Len(plan)
        /\ \A i \in 1..Len(plan) :
            /\ plan'[i].date = plan[i].date
            /\ plan'[i].topic = plan[i].topic
            /\ plan'[i].duration_hours = plan[i].duration_hours
            /\ plan'[i] # plan[i] =>
                /\ plan[i].status = "pending"
                /\ plan[i].date # UNSCHEDULED /\ plan[i].date < today
                /\ plan'[i].status = "missed"
                /\ plan'[i].notes = <<Note("marked missed on", today)>> \o plan[i].notes]_vars

(* a run that marked a session and appended both a rescheduled session and  *)
(* an UNSCHEDULED reschedule failure                                        *)
C8_Witness ==
    /\ DidReschedule
    /\ \E k \in 1..Len(plan) : plan[k].notes = <<Note("reschedule failed", 0)>>

(* C10: when main finds no plan and the exam date is not after today,       *)
(* generate_plan raises, and that invocation of main ends with the error,   *)
(* the plan file untouched and no notification sent.                        *)
C10_InvalidRangeAborts ==
    [][(/\ last' = "main:generate"
        /\ exam_date <= today)
        => (exit' = "ValueError" /\ file' = file /\ sent' = <<>> /\ plan' = <<>>)]_vars

(* main has aborted on the date range, with no plan file or an empty one *)
C10_Witness ==
    /\ last = "main:generate"
    /\ exit = "ValueError"
    /\ exam_date <= today
    /\ file.content = <<>>

(* C11: whatever the calls of send_telegram meet, an invocation of main     *)
(* with a plan to reconcile runs reschedule_missed and ends normally, one   *)
(* that generates a plan ends normally, and the plan file it leaves is the  *)
(* one it leaves when every delivery succeeds.                              *)
C11_DeliveryNonFatal ==
    [][/\ last' = "main:reconcile" =>
            /\ exit' = "0"
            /\ plan' = reschedule_missed(file.content, today, exam_date, daily_hours).plan
            /\ file' = IF placed' > 0 THEN [exists |-> TRUE, content |-> plan'] ELSE file
       /\ (last' = "main:generate" /\ exam_date > today) =>
            /\ exit' = "0"
            /\ file' = [exists |-> TRUE, content |-> plan']]_vars

(* main has reconciled and placed a session after the delivery of today's   *)
(* tasks failed, and the delivery of the reschedule notice failed as well   *)
C11_Witness ==
    /\ last = "main:reconcile"
    /\ exit = "0"
    /\ placed > 0
    /\ sent = <<Sent("today", "failed"), Sent("rescheduled", "failed")>>
    /\ file.content = plan

(* C12: every session generate_plan records has a duration above 0 *)
C12_PositiveDurations ==
    last = "generate_plan" => \A i \in 1..Len(plan) : plan[i].duration_hours > 0

(* C14: in a generated plan no topic has more than the max chunk on one date *)
C14_ChunkPerTopicPerDay ==
    last = "generate_plan" =>
        \A d \in Days : \A i \in 1..Len(syllabus) :
            TopicTotal(SelectSeq(plan, LAMBDA p : p.date = d), syllabus[i].topic, 1) <= max_chunk

(* ---------------------- the generator's steps ------------------------- *)
WindowDates == start_date..(exam_date - 1)

IsTopicSession(p) == p.topic # "Review & Practice"

(* the topic sessions recorded so far for the date d *)
TopicSessionsOn(pl, d) == SelectSeq(pl, LAMBDA p : p.date = d /\ IsTopicSession(p))

(* position of the topic named t in the sorted topic list *)
TopicPos(topics, t) == CHOOSE k \in 1..Len(topics) : topics[k].topic = t

(* 0-based position just after the topic of the most recent allocation *)
AfterLastAllocation(g) ==
    LET ts == SelectSeq(g.plan, IsTopicSession)
    IN  IF ts = <<>> THEN 0
        ELSE TopicPos(g.topics, ts[Len(ts)].topic) % Len(g.topics)

(* C13: a day's allocation loop is left only with the capacity exhausted,   *)
(* no topic with effort left, or nothing to allocate; with a positive max   *)
(* chunk a day that ends with capacity left leaves no topic with effort,    *)
(* and then a plan has an UNSCHEDULED entry only if every day is filled up  *)
(* to the budget (within the rounding to 2 decimals).                       *)
C13_LoopStopsOnlyWhenDone ==
    [][/\ (gen.pc = "loop" /\ gen'.pc = "day") =>
            \/ gen.g.cap <= 0
            \/ ~AnyRemaining(gen.g.topics)
            \/ Hits(gen.g.topics, gen.g.idx, gen.g.cap, max_chunk) = {}
       /\ (gen.pc \in {"day", "loop"} /\ gen'.pc = "day" /\ gen'.day = gen.day + 1
            /\ max_chunk > 0 /\ gen'.g.cap > 0) => ~AnyRemaining(gen'.g.topics)
       /\ (gen'.pc = "done" /\ max_chunk > 0
            /\ \E i \in 1..Len(plan') : plan'[i].date = UNSCHEDULED) =>
            \A d \in WindowDates : 2 * (daily_hours - DayTotal(plan', d, 1)) <= Cent]_vars

(* C17: every allocation goes to the first topic with effort left that is   *)
(* found cyclically from the position just after the topic of the most      *)
(* recent allocation, be that allocation of the same day or of an earlier   *)
(* one (from the first topic when there was none).                          *)
C17_RoundRobinPersists ==
    [][(gen.pc = "loop" /\ gen'.pc = "loop" /\ Len(gen'.g.plan) = Len(gen.g.plan) + 1) =>
        LET g == gen.g
            n == Len(g.topics)
            from == AfterLastAllocation(g)
            k == TopicPos(g.topics, gen'.g.plan[Len(gen'.g.plan)].topic) - 1
        IN  \E i \in 0..(n - 1) :
                /\ (from + i) % n = k
                /\ g.topics[k + 1].remaining > 0
                /\ \A j \in 0..(i - 1) : g.topics[((from + j) % n) + 1].remaining <= 0]_vars

(* a later day whose first allocation went to the second topic of the       *)
(* sorted list while the first topic had effort left                        *)
C17_Witness ==
    /\ gen.pc = "loop"
    /\ gen.day > 0
    /\ Len(gen.g.topics) = 2
    /\ LET ts == TopicSessionsOn(gen.g.plan, start_date + gen.day)
       IN  /\ Len(ts) = 1
           /\ ts[1].topic = gen.g.topics[2].topic
           /\ ts[1].duration_hours > 0
    /\ gen.g.topics[1].remaining > 0

(* the start of a day: what is recorded and the capacity left for topics *)
ReviewAtDayBegin(dur) ==
    (gen.pc = "day" /\ gen'.pc \in {"day", "loop"}) =>
        LET date == start_date + gen.day
        IN  IF (gen.day + 1) % review_every = 0
            THEN /\ Len(gen'.g.plan) = Len(gen.g.plan) + 1
                 /\ SubSeq(gen'.g.plan, 1, Len(gen.g.plan)) = gen.g.plan
                 /\ \A i \in 1..Len(gen.g.plan) : gen.g.plan[i].date # date
                 /\ LET r == gen'.g.plan[Len(gen'.g.plan)]
                    IN  /\ r.date = date
                        /\ r.topic = "Review & Practice"
                        /\ r.duration_hours = dur
                 /\ gen'.g.cap = daily_hours - Min2(ReviewHours, daily_hours)
            ELSE /\ gen'.g.plan = gen.g.plan
                 /\ gen'.g.cap = daily_hours

(* C18, as stated: a Review & Practice session is recorded on exactly the   *)
(* days whose 1-based index is divisible by the review interval, first of   *)
(* its date, with duration min(1 hour, daily budget), which is taken off    *)
(* the capacity of the day; allocations record none.                        *)
C18_ReviewDays ==
    [][/\ ReviewAtDayBegin(Min2(ReviewHours, daily_hours))
       /\ (gen.pc = "loop" /\ gen'.pc = "loop") =>
            \A i \in (Len(gen.g.plan) + 1)..Len(gen'.g.plan) : IsTopicSession(gen'.g.plan[i])]_vars

(* C18, amended: the same, the recorded duration being min(1 hour, daily    *)
(* budget) rounded to 2 decimals.                                           *)
C18_ReviewDaysRounded ==
    [][/\ ReviewAtDayBegin(Round2(Min2(ReviewHours, daily_hours)))
       /\ (gen.pc = "loop" /\ gen'.pc = "loop") =>
            \A i \in (Len(gen.g.plan) + 1)..Len(gen'.g.plan) : IsTopicSession(gen'.g.plan[i])]_vars

(* a review day that starts with every topic exhausted, under a budget      *)
(* below one hour that is not a whole number of hundredths                  *)
C18_Witness ==
    /\ gen.pc = "day"
    /\ gen.day > 0
    /\ gen.day % review_every = 0
    /\ gen.g.topics # <<>>
    /\ \E i \in 1..Len(gen.g.topics) : gen.g.topics[i].remaining = 0 /\ \E j \in 1..Len(syllabus) : syllabus[j].est_hours > 0
    /\ ~AnyRemaining(gen.g.topics)
    /\ gen.g.plan # <<>>
    /\ LET r == gen.g.plan[Len(gen.g.plan)]
       IN  /\ r.topic = "Review & Practice"
           /\ r.date = start_date + gen.day - 1
           /\ r.duration_hours = Round2(daily_hours)
           /\ r.duration_hours # daily_hours

(* C20: generate_plan returns for every input; a day never gets more than   *)
(* 4 x (number of topics) topic allocations, and a pass of the loop that    *)
(* finds nothing to allocate ends the day.                                  *)
C20_Terminates ==
    /\ <>(gen.pc = "done")
    /\ [](\A d \in WindowDates :
            Len(TopicSessionsOn(gen.g.plan, d)) <= 4 * Len(gen.g.topics))
    /\ [][(gen.pc = "loop" /\ Hits(gen.g.topics, gen.g.idx, gen.g.cap, max_chunk) = {})
            => gen'.pc = "day"]_vars

(* generate_plan has returned a plan in which a day holds 4 x (number of    *)
(* topics) allocations and effort is left over                              *)
C20_Witness ==
    /\ gen.pc = "done"
    /\ last = "generate_plan"
    /\ gen.g.topics # <<>>
    /\ \E d \in WindowDates :
        Len(TopicSessionsOn(plan, d)) = 4 * Len(gen.g.topics)
    /\ \E i \in 1..Len(plan) : plan[i].date = UNSCHEDULED

(* --------------------------- the placements --------------------------- *)
(* hours of the non-missed sessions dated d among the first j - 1 sessions *)
RECURSIVE OccBefore(_, _, _)
OccBefore(pl, d, j) ==
    IF j <= 1 THEN 0
    ELSE (IF pl[j - 1].date = d /\ pl[j - 1].status # "missed"
          THEN pl[j - 1].duration_hours ELSE 0) + OccBefore(pl, d, j - 1)

RECURSIVE IsSubseq(_, _)
IsSubseq(a, b) ==
    IF a = <<>> THEN TRUE
    ELSE IF b = <<>> THEN FALSE
    ELSE IF a[1] = b[1] THEN IsSubseq(Tail(a), Tail(b))
    ELSE IsSubseq(a, Tail(b))

RECURSIVE NonMissedHours(_, _, _)
NonMissedHours(pl, t, i) ==
    IF i > Len(pl) THEN 0
    ELSE (IF pl[i].topic = t /\ pl[i].status # "missed" THEN pl[i].duration_hours ELSE 0)
         + NonMissedHours(pl, t, i + 1)

Room(pl, d, j, dur) == OccBefore(pl, d, j) + dur <= daily_hours + CapacityEps

(* C15: every session a reschedule_missed run places carries the full       *)
(* duration of a session the run marked missed and sits on the first date   *)
(* of [today, exam date) on which the non-missed sessions recorded before   *)
(* it left room for that duration (within the 1e-6 tolerance); the placed   *)
(* sessions come in the plan order of the sessions they copy.               *)
C15_FirstFit ==
    [][last' = "reschedule_missed" =>
        LET old == Len(plan)
            app == (old + 1)..Len(plan')
            missedKeys == [i \in 1..old |->
                <<plan'[i].topic, plan'[i].duration_hours, plan'[i].date,
                  plan[i].status # "missed" /\ plan'[i].status = "missed">>]
            placedKeys == [k \in 1..(Len(plan') - old) |->
                <<plan'[old + k].topic, plan'[old + k].duration_hours,
                  IF plan'[old + k].notes = <<>> THEN 0 ELSE plan'[old + k].notes[1].date,
                  plan'[old + k].date # UNSCHEDULED>>]
        IN  /\ \A j \in app : plan'[j].date # UNSCHEDULED =>
                /\ plan'[j].date \in today..(exam_date - 1)
                /\ Room(plan', plan'[j].date, j, plan'[j].duration_hours)
                /\ \A d \in today..(plan'[j].date - 1) :
                        ~Room(plan', d, j, plan'[j].duration_hours)
            /\ IsSubseq(SelectSeq(placedKeys, LAMBDA x : x[4]),
                        SelectSeq(missedKeys, LAMBDA x : x[4]))]_vars

(* a run that placed one missed session today and another one on a later   *)
(* date                                                                     *)
C15_Witness ==
    /\ last = "reschedule_missed"
    /\ \E i1, i2, j1, j2 \in 1..Len(plan) :
        /\ i1 # i2 /\ j1 # j2
        /\ plan[i1].notes # <<>> /\ plan[i1].notes[1] = Note("marked missed on", today)
        /\ plan[i2].notes # <<>> /\ plan[i2].notes[1] = Note("marked missed on", today)
        /\ plan[j1].notes = <<Note("rescheduled from", plan[i1].date)>>
        /\ plan[j2].notes = <<Note("rescheduled from", plan[i2].date)>>
        /\ plan[j1].date = today
        /\ plan[j2].date > today

(* C16: a reschedule_missed run appends one pending session per session it  *)
(* marks missed, of the same topic and duration, dated in [today, exam      *)
(* date) or UNSCHEDULED when no date has room; the count it returns is the  *)
(* number of appended sessions with a concrete date, and the non-missed     *)
(* hours of every topic are those of before the run.                        *)
C16_OneCopyPerMissed ==
    [][last' = "reschedule_missed" =>
        LET old == Len(plan)
            app == (old + 1)..Len(plan')
            newly == {i \in 1..old : plan[i].status # "missed" /\ plan'[i].status = "missed"}
        IN  /\ Cardinality(app) = Cardinality(newly)
            /\ \A j \in app :
                /\ plan'[j].status = "pending"
                /\ plan'[j].date = UNSCHEDULED \/ plan'[j].date \in today..(exam_date - 1)
                /\ plan'[j].date = UNSCHEDULED =>
                    \A d \in today..(exam_date - 1) :
                        ~Room(plan', d, Len(plan') + 1, plan'[j].duration_hours)
            /\ \A i \in newly :
                Cardinality({j \in app : /\ plan'[j].topic = plan[i].topic
                                         /\ plan'[j].duration_hours = plan[i].duration_hours})
                = Cardinality({k \in newly : /\ plan[k].topic = plan[i].topic
                                             /\ plan[k].duration_hours = plan[i].duration_hours})
            /\ placed' = Cardinality({j \in app : plan'[j].date # UNSCHEDULED})
            /\ \A i \in 1..Len(plan') :
                NonMissedHours(plan', plan'[i].topic, 1) = NonMissedHours(plan, plan'[i].topic, 1)]_vars

(* a run that marked two sessions, placed one and failed to place the other *)
C16_Witness ==
    /\ DidReschedule
    /\ placed = 1
    /\ \E k \in 1..Len(plan) : plan[k].notes = <<Note("reschedule failed", 0)>>
    /\ Cardinality({i \in 1..Len(plan) :
            plan[i].notes # <<>> /\ plan[i].notes[1] = Note("marked missed on", today)}) = 2

(* C19, as stated: an invocation of main generates a plan only when no plan *)
(* file exists; with a plan file it reconciles.                             *)
C19_GeneratesOnce ==
    [][last' \in {"main:generate", "main:reconcile"} =>
        (last' = "main:generate" <=> ~file.exists)]_vars

(* C19, amended: an invocation of main generates a plan exactly when the    *)
(* plan file is missing or holds an empty plan, and persists it when the    *)
(* date range is valid; with a non-empty persisted plan it reconciles and   *)
(* leaves every persisted session in place.                                 *)
C19_GeneratesWhenNoPlan ==
    [][last' \in {"main:generate", "main:reconcile"} =>
        /\ last' = "main:generate" <=> (~file.exists \/ file.content = <<>>)
        /\ (last' = "main:generate" /\ exam_date > today) =>
            /\ file'.exists
            /\ plan' = generate_plan(syllabus, today, exam_date, daily_hours,
                                     review_every, max_chunk).plan
            /\ file'.content = plan'
        /\ last' = "main:reconcile" =>
            /\ Len(file'.content) >= Len(file.content)
            /\ \A i \in 1..Len(file.content) :
                /\ file'.content[i].date = file.content[i].date
                /\ file'.content[i].topic = file.content[i].topic
                /\ file'.content[i].duration_hours = file.content[i].duration_hours]_vars

(* main has generated and persisted an empty plan for a non-empty topic     *)
(* list: the next invocation finds no plan again                            *)
C19_Witness ==
    /\ last = "main:generate"
    /\ exit = "0"
    /\ syllabus # <<>>
    /\ file.exists
    /\ file.content = <<>>

====
